---- MODULE Spec2Model ----
(***************************************************************************)
(* Model of backend/main.py: the POST /api/process handler of the meeting  *)
(* summarizer.  One request at a time runs through                         *)
(*   read upload -> temporary directory -> (ffmpeg) -> whisper ->          *)
(*   main summary -> (focused summary) -> structured insights ->           *)
(*   diarization -> response.                                              *)
(* Texts are sequences of characters.  A character is a one-symbol string; *)
(* the words of a JSON text (a quoted literal, a number, null) and the     *)
(* letters of a file name are kept as one symbol each.                     *)
(***************************************************************************)
EXTENDS Integers, Sequences, FiniteSets, TLC

\* ---------------------------------------------------------------- bounds
\* longest text the generative API returns to the focused-summary call in
\* the specification of summarize_focused alone (SpecFocus)
MaxLen == 4
\* longest text the generative API returns to the focused-summary call in
\* the specification of the whole endpoint (Spec)
MaxPipeLen == 1
\* number of names mkdtemp can give a temporary directory
NumDirNames == 2

\* ------------------------------------------------------- python str helpers
\* the character U+2022 (bullet)
BULLET == "U+2022"
NL == "\n"
SP == " "

\* str.isspace() on one character
IsSpace(c) == c \in {SP, NL}

RECURSIVE LStrip(_)
\* str.lstrip()
LStrip(s) ==
    IF s = <<>> THEN <<>>
    ELSE IF IsSpace(Head(s)) THEN LStrip(Tail(s)) ELSE s

RECURSIVE RStrip(_)
\* str.rstrip()
RStrip(s) ==
    IF s = <<>> THEN <<>>
    ELSE IF IsSpace(s[Len(s)]) THEN RStrip(SubSeq(s, 1, Len(s) - 1)) ELSE s

\* str.strip()
Strip(s) == RStrip(LStrip(s))

\* str.startswith(BULLET)
StartsWithBullet(s) == Len(s) > 0 /\ s[1] = BULLET

RECURSIVE SplitAcc(_, _, _)
\* scan of str.splitlines(): cur is the line being read, acc the lines read
SplitAcc(s, cur, acc) ==
    IF s = <<>> THEN (IF cur = <<>> THEN acc ELSE Append(acc, cur))
    ELSE IF Head(s) = NL THEN SplitAcc(Tail(s), <<>>, Append(acc, cur))
    ELSE SplitAcc(Tail(s), Append(cur, Head(s)), acc)

\* str.splitlines(): a final newline opens no further line
SplitLines(s) == SplitAcc(s, <<>>, <<>>)

RECURSIVE JoinLines(_)
\* "\n".join(lines)
JoinLines(lines) ==
    IF lines = <<>> THEN <<>>
    ELSE IF Len(lines) = 1 THEN lines[1]
    ELSE lines[1] \o <<NL>> \o JoinLines(Tail(lines))

RECURSIVE StripNonBlank(_)
\* [line.strip() for line in lines if line.strip()]
StripNonBlank(lines) ==
    IF lines = <<>> THEN <<>>
    ELSE IF Strip(Head(lines)) = <<>> THEN StripNonBlank(Tail(lines))
    ELSE <<Strip(Head(lines))>> \o StripNonBlank(Tail(lines))

\* ------------------------------------------------------------ extract_text
\* A response object of the generative API.
\*   acc     what reading response.text does: "absent" (no attribute),
\*           "raises" (the accessor throws), "value" (it returns text)
\*   text    the text of the accessor when acc = "value"
\*   candOk  whether response.candidates[0].content.parts[0].text exists
\*   cand    its text when candOk
Response(acc, text, candOk, cand) ==
    [acc |-> acc, text |-> text, candOk |-> candOk, cand |-> cand]

extract_text(response) ==
    IF response.acc = "value" /\ response.text # <<>>
    THEN Strip(response.text)
    ELSE IF response.candOk THEN Strip(response.cand) ELSE <<>>

\* ------------------------------------------------------- summarize_focused
FallbackText == "No relevant information was found in the meeting for the requested focus topics"
FallbackBullet == <<BULLET, SP, FallbackText>>

RECURSIVE BulletLinesNoSpace(_)
\* BulletLines with the prefix written without its space
BulletLinesNoSpace(lines) ==
    IF lines = <<>> THEN <<>>
    ELSE <<(IF StartsWithBullet(Head(lines)) THEN Head(lines)
            ELSE <<BULLET>> \o Head(lines))>> \o BulletLinesNoSpace(Tail(lines))

RECURSIVE BulletLines(_)
\* the loop over lines: prefix BULLET and a space unless the line starts with BULLET
BulletLines(lines) ==
    IF lines = <<>> THEN <<>>
    ELSE <<(IF StartsWithBullet(Head(lines)) THEN Head(lines)
            ELSE <<BULLET, SP>> \o Head(lines))>> \o BulletLines(Tail(lines))

\* summarize_focused without its two fallback returns
summarize_focused_nofallback(response) ==
    LET text == Strip(extract_text(response)) IN
    IF ~StartsWithBullet(LStrip(text))
    THEN JoinLines(BulletLines(StripNonBlank(SplitLines(text))))
    ELSE text

\* summarize_focused after generate_content has returned response
summarize_focused(response) ==
    LET text == Strip(extract_text(response)) IN
    IF text = <<>> THEN FallbackBullet
    ELSE IF ~StartsWithBullet(LStrip(text))
    THEN LET lines == StripNonBlank(SplitLines(text)) IN
         IF lines = <<>> THEN FallbackBullet
         ELSE JoinLines(BulletLines(lines))
    ELSE text

\* ------------------------------------------------------------- json.loads
\* A JSON text is a sequence of symbols: the punctuation { } [ ] : , the
\* white space SP and NL, the quoted literals of StrLits, the number "1",
\* null, and the bare word "Sure" (no JSON at all).
StrLits == {"\"actions\"", "\"decisions\"", "\"owners\"", "\"risks\"", "\"x\""}

\* A parsed value: kind is "dict", "list", "str", "num" or "null"; s the
\* literal of a string or number; items the elements of a list, or the
\* members <<key, value>> of a dict in the order they were read.
JV(kind, s, items) == [kind |-> kind, s |-> s, items |-> items]
EmptyList == JV("list", "", <<>>)
ParseFail == [ok |-> FALSE, val |-> JV("null", "", <<>>), next |-> 0]
ParseOk(val, next) == [ok |-> TRUE, val |-> val, next |-> next]

RECURSIVE SkipWs(_, _)
\* index of the first symbol at or after i that is not white space
SkipWs(toks, i) ==
    IF i <= Len(toks) /\ IsSpace(toks[i]) THEN SkipWs(toks, i + 1) ELSE i

RECURSIVE ParseValue(_, _)
RECURSIVE ParseElems(_, _, _)
RECURSIVE ParseMembers(_, _, _)

\* the decoder's scan of one value starting at symbol i
ParseValue(toks, i0) ==
    LET i == SkipWs(toks, i0) IN
    IF i > Len(toks) THEN ParseFail
    ELSE IF toks[i] \in StrLits THEN ParseOk(JV("str", toks[i], <<>>), i + 1)
    ELSE IF toks[i] = "1" THEN ParseOk(JV("num", "1", <<>>), i + 1)
    ELSE IF toks[i] = "null" THEN ParseOk(JV("null", "", <<>>), i + 1)
    ELSE IF toks[i] = "[" THEN
        LET j == SkipWs(toks, i + 1) IN
        IF j <= Len(toks) /\ toks[j] = "]" THEN ParseOk(EmptyList, j + 1)
        ELSE ParseElems(toks, i + 1, <<>>)
    ELSE IF toks[i] = "{" THEN
        LET j == SkipWs(toks, i + 1) IN
        IF j <= Len(toks) /\ toks[j] = "}" THEN ParseOk(JV("dict", "", <<>>), j + 1)
        ELSE ParseMembers(toks, i + 1, <<>>)
    ELSE ParseFail

\* the elements of a list after "[" or ",": value, then "," or "]"
ParseElems(toks, i, acc) ==
    LET r == ParseValue(toks, i) IN
    IF ~r.ok THEN ParseFail
    ELSE LET j == SkipWs(toks, r.next) IN
         IF j > Len(toks) THEN ParseFail
         ELSE IF toks[j] = "," THEN ParseElems(toks, j + 1, Append(acc, r.val))
         ELSE IF toks[j] = "]" THEN ParseOk(JV("list", "", Append(acc, r.val)), j + 1)
         ELSE ParseFail

\* the members of an object after "{" or ",": key ":" value, then "," or "}"
ParseMembers(toks, i0, acc) ==
    LET i == SkipWs(toks, i0) IN
    IF i > Len(toks) \/ ~(toks[i] \in StrLits) THEN ParseFail
    ELSE LET c == SkipWs(toks, i + 1) IN
         IF c > Len(toks) \/ toks[c] # ":" THEN ParseFail
         ELSE LET r == ParseValue(toks, c + 1) IN
              IF ~r.ok THEN ParseFail
              ELSE LET j == SkipWs(toks, r.next)
                       mem == <<JV("str", toks[i], <<>>), r.val>>
                   IN IF j > Len(toks) THEN ParseFail
                      ELSE IF toks[j] = "," THEN ParseMembers(toks, j + 1, Append(acc, mem))
                      ELSE IF toks[j] = "}" THEN ParseOk(JV("dict", "", Append(acc, mem)), j + 1)
                      ELSE ParseFail

\* json.loads(s): one value, then nothing but white space; ok = FALSE is
\* the JSONDecodeError
json_loads(s) ==
    LET r == ParseValue(s, 1) IN
    IF r.ok /\ SkipWs(s, r.next) > Len(s) THEN r ELSE ParseFail

RECURSIVE DictGetFrom(_, _, _, _)
\* the value of the last member with that key, default when there is none
DictGetFrom(items, n, key, default) ==
    IF n = 0 THEN default
    ELSE IF items[n][1].s = key THEN items[n][2]
    ELSE DictGetFrom(items, n - 1, key, default)

\* dict.get(key, default)
DictGet(d, key, default) == DictGetFrom(d.items, Len(d.items), key, default)

\* ---------------------------------------------- extract_structured_insights
EmptyInsights ==
    JV("dict", "", << <<JV("str", "\"actions\"", <<>>), EmptyList>>,
                      <<JV("str", "\"decisions\"", <<>>), EmptyList>>,
                      <<JV("str", "\"owners\"", <<>>), EmptyList>>,
                      <<JV("str", "\"risks\"", <<>>), EmptyList>> >>)

\* extract_structured_insights returning None when json.loads fails
extract_structured_insights_none(response) ==
    LET r == json_loads(extract_text(response)) IN
    IF r.ok THEN r.val ELSE JV("null", "", <<>>)

\* extract_structured_insights after generate_content has returned response
extract_structured_insights(response) ==
    LET r == json_loads(extract_text(response)) IN
    IF r.ok THEN r.val ELSE EmptyInsights

\* ---------------------------------------------------------- is_video_file
\* An optional string (str | None): some = FALSE is None.
None == [some |-> FALSE, v |-> <<>>]
Some(v) == [some |-> TRUE, v |-> v]
\* python truthiness of an optional string
Truthy(o) == o.some /\ o.v # <<>>

RECURSIVE LastIndexOf(_, _, _)
\* str.rfind(c) counted from 1, 0 when c does not occur in s[1..n]
LastIndexOf(s, n, c) ==
    IF n = 0 THEN 0
    ELSE IF s[n] = c THEN n ELSE LastIndexOf(s, n - 1, c)

RECURSIVE DropTrailingSlashes(_)
DropTrailingSlashes(s) ==
    IF s # <<>> /\ s[Len(s)] = "/" THEN DropTrailingSlashes(SubSeq(s, 1, Len(s) - 1))
    ELSE s

\* Path(p).name: the final component of the path
PathName(p) ==
    LET q == DropTrailingSlashes(p)
        k == LastIndexOf(q, Len(q), "/")
    IN SubSeq(q, k + 1, Len(q))

\* Path(p).suffix: from the last dot of the name on, unless that dot is
\* the first or the last character of the name
PathSuffix(p) ==
    LET name == PathName(p)
        k == LastIndexOf(name, Len(name), ".")
    IN IF 1 < k /\ k < Len(name) THEN SubSeq(name, k, Len(name)) ELSE <<>>

\* str.lower() on one letter group
LowerSym(c) ==
    CASE c = "MP4" -> "mp4"
      [] c = "Mkv" -> "mkv"
      [] c = "A" -> "a"
      [] OTHER -> c

\* str.lower()
Lower(s) == [k \in 1..Len(s) |-> LowerSym(s[k])]

video_exts == {<<".", "mp4">>, <<".", "mkv">>, <<".", "avi">>, <<".", "mov">>, <<".", "webm">>}

\* is_video_file comparing the suffix without lower()
is_video_file_nolower(filename, content_type) ==
    IF Truthy(filename) /\ PathSuffix(filename.v) \in video_exts THEN TRUE
    ELSE IF Truthy(content_type) /\ Head(content_type.v) = "video/" THEN TRUE
    ELSE FALSE

is_video_file(filename, content_type) ==
    IF Truthy(filename) /\ Lower(PathSuffix(filename.v)) \in video_exts THEN TRUE
    ELSE IF Truthy(content_type) /\ Head(content_type.v) = "video/" THEN TRUE
    ELSE FALSE

\* Path(upload.filename or fallback).suffix or default
InputExt(filename, fallback, default) ==
    LET suffix == PathSuffix(IF Truthy(filename) THEN filename.v ELSE fallback) IN
    IF suffix # <<>> THEN suffix ELSE default

\* ------------------------------------------------------------------ inputs
\* declared file names of the upload
Filenames ==
    { None, Some(<<>>),
      Some(<<"a", ".", "mp4">>), Some(<<"a", ".", "MP4">>), Some(<<"a", ".", "Mkv">>),
      Some(<<"a", ".", "avi">>), Some(<<"a", ".", "mov">>), Some(<<"a", ".", "webm">>),
      Some(<<"a", ".", "wav">>), Some(<<"a">>), Some(<<".", "mp4">>),
      Some(<<"a", ".", "mp4", ".", "wav">>), Some(<<"a", ".", "mp4", "/", "a">>) }

\* declared content types of the upload
ContentTypes ==
    { None, Some(<<"video/", "mp4">>), Some(<<"audio/", "wav">>), Some(<<"Video/", "mp4">>) }

\* the names mkdtemp chooses from; it returns one that does not exist
DirNames == 1..NumDirNames

\* the focus_prompt form field
FocusPrompts == { <<>>, <<SP>>, <<"a">>, <<SP, "a", NL>> }

\* texts in result["text"] of the transcription model
WhisperTexts == { <<>>, <<"a">>, <<SP, "a">> }

\* the uploads of the specification of the whole endpoint
PipeFilenames == { None, Some(<<"a", ".", "MP4">>), Some(<<"a", ".", "wav">>) }
PipeContentTypes == { None, Some(<<"video/", "mp4">>) }
PipeFocusPrompts == { <<>>, <<SP>>, <<SP, "a", NL>> }

TextChars == {BULLET, SP, NL, "a"}

\* all texts of at most n characters
TextsUpTo(n) == UNION { [1..k -> TextChars] : k \in 0..n }

\* response objects of the generative API whose texts are drawn from T
Responses(T) ==
    { Response("value", t, FALSE, <<>>) : t \in T }
    \cup { Response("value", t, TRUE, <<"a">>) : t \in T }
    \cup { Response(a, <<>>, TRUE, t) : a \in {"absent", "raises", "value"}, t \in T }
    \cup { Response(a, <<>>, FALSE, <<>>) : a \in {"absent", "raises"} }

NoResponse == Response("absent", <<>>, FALSE, <<>>)

\* texts returned to the structured-insights call
InsightTexts ==
    { <<>>,
      <<"Sure">>,
      <<"{", "\"actions\"", ":", "[", "]", ",">>,
      <<"[", "\"x\"", "]">>,
      <<"\"x\"">>,
      <<"null">>,
      <<"{", "}">>,
      <<"{", "\"actions\"", ":", "[", "\"x\"", "]", "}">>,
      <<"{", "\"actions\"", ":", "\"x\"", ",", "\"risks\"", ":", "null", "}">>,
      <<"{", "\"actions\"", ":", "[", "]", ",", "\"decisions\"", ":", "[", "\"x\"", "]", ",",
        "\"owners\"", ":", "[", "{", "\"x\"", ":", "\"x\"", "}", "]", ",", "\"risks\"", ":", "[", "]", "}", NL>>,
      <<"{", "\"actions\"", ":", "[", "]", "}", "Sure">> }

\* texts returned to the main-summary and diarization calls
PlainTexts == { <<>>, <<"a">> }

\* ------------------------------------------------------------------- state
VARIABLES
    pc,              \* where the handler is: "idle", "read", "mkdtemp", "write",
                     \* "ffmpeg", "whisper", "main", "focus", "insights",
                     \* "diarize", "done"
    filename,        \* audio.filename
    content_type,    \* audio.content_type
    focus_prompt,    \* the focus_prompt form field
    isVideo,         \* the branch taken on is_video_file(...)
    tmpdir,          \* the directory of the TemporaryDirectory() in use, 0 when none
    dirs,            \* temporary directories that exist on disk
    files,           \* files that exist on disk, as <<directory, name>>
    dirsCreated,     \* temporary directories this request has created
    ffmpegCalls,     \* runs of the ffmpeg subprocess in this request
    whisperCalls,    \* calls of whisper_model.transcribe in this request
    genCalls,        \* calls of gemini_model.generate_content in this request, per operation
    raised,          \* the step of this request that failed, "none" when none did
    response,        \* the object the last generate_content call returned
    transcript_text,
    summary,
    focused_summary,
    extracted,       \* the text extract_structured_insights handed to json.loads
    structured,
    diarized,
    status,          \* HTTP status of the response, 0 while there is none
    body             \* JSON body of the response

vars == <<pc, filename, content_type, focus_prompt, isVideo, tmpdir,
          dirs, files, dirsCreated, ffmpegCalls, whisperCalls, genCalls,
          raised, response, transcript_text, summary, focused_summary, extracted,
          structured, diarized, status, body>>

upload == <<filename, content_type, focus_prompt>>
disk == <<tmpdir, dirs, files, dirsCreated, isVideo>>
tools == <<ffmpegCalls, whisperCalls>>
results == <<transcript_text, summary, focused_summary, extracted, structured, diarized>>
reply == <<status, body>>

Ops == {"main", "focused", "insights", "diarize"}
NoCalls == [op \in Ops |-> 0]
NoBody == [none |-> TRUE]
NoValue == JV("null", "", <<>>)

\* the state of a request that has just arrived
Fresh ==
    /\ isVideo' = FALSE
    /\ tmpdir' = 0
    /\ dirsCreated' = 0
    /\ ffmpegCalls' = 0
    /\ whisperCalls' = 0
    /\ genCalls' = NoCalls
    /\ raised' = "none"
    /\ response' = NoResponse
    /\ transcript_text' = <<>>
    /\ summary' = <<>>
    /\ focused_summary' = <<>>
    /\ extracted' = <<>>
    /\ structured' = NoValue
    /\ diarized' = <<>>
    /\ status' = 0
    /\ body' = NoBody

Init ==
    /\ pc = "idle"
    /\ filename = None
    /\ content_type = None
    /\ focus_prompt = <<>>
    /\ isVideo = FALSE
    /\ tmpdir = 0
    /\ dirs = {}
    /\ files = {}
    /\ dirsCreated = 0
    /\ ffmpegCalls = 0
    /\ whisperCalls = 0
    /\ genCalls = NoCalls
    /\ raised = "none"
    /\ response = NoResponse
    /\ transcript_text = <<>>
    /\ summary = <<>>
    /\ focused_summary = <<>>
    /\ extracted = <<>>
    /\ structured = NoValue
    /\ diarized = <<>>
    /\ status = 0
    /\ body = NoBody

\* JSONResponse(status_code=code, content={"error": f"{prefix}{e}"})
ErrorBody(prefix, cause) == [error |-> <<prefix, cause>>]

\* ---------------------------------------------------------- process_meeting
\* a request arrives: FastAPI binds the form fields and calls the handler
ReceiveFrom(F, C, P) ==
    /\ pc \in {"idle", "done"}
    /\ \E fn \in F, ct \in C, fp \in P :
          /\ filename' = fn
          /\ content_type' = ct
          /\ focus_prompt' = fp
    /\ pc' = "read"
    /\ Fresh
    /\ UNCHANGED <<dirs, files>>

Receive == ReceiveFrom(PipeFilenames, PipeContentTypes, PipeFocusPrompts)

\* file_bytes = await audio.read()
ReadUpload ==
    /\ pc = "read"
    /\ \/ /\ pc' = "mkdtemp"
          /\ UNCHANGED <<raised, reply>>
       \/ /\ pc' = "done"
          /\ raised' = "read"
          /\ status' = 400
          /\ body' = ErrorBody("Failed to read file: ", "OSError")
    /\ UNCHANGED <<upload, disk, tools, genCalls, response, results>>

\* ------------------------------------------- transcribe_with_whisper_local
\* with tempfile.TemporaryDirectory() as tmpdir, and the test on is_video_file
EnterTmpDir ==
    /\ pc = "mkdtemp"
    /\ \E d \in DirNames \ dirs :
          /\ tmpdir' = d
          /\ dirs' = dirs \cup {d}
    /\ dirsCreated' = dirsCreated + 1
    /\ isVideo' = is_video_file(filename, content_type)
    /\ pc' = "write"
    /\ UNCHANGED <<upload, files, tools, genCalls, raised, response, results, reply>>

\* the directory removed at the end of the block only, not on an exception
DirsOnExitNoFinally(ok) == IF ok THEN dirs \ {tmpdir} ELSE dirs

\* the directories left on disk when the with block is left; ok tells
\* whether it is left normally or by an exception
DirsOnExit(ok) == dirs \ {tmpdir}
\* the files left on disk when the with block is left
FilesOnExit(ok) == { f \in files : f[1] # tmpdir }

\* an exception leaves the with block and reaches the handler of the
\* transcription stage
TranscriptionFailed(step, cause) ==
    /\ dirs' = DirsOnExit(FALSE)
    /\ files' = FilesOnExit(FALSE)
    /\ tmpdir' = 0
    /\ raised' = step
    /\ status' = 500
    /\ body' = ErrorBody("Transcription failed: ", cause)
    /\ pc' = "done"

input_path ==
    IF isVideo THEN <<tmpdir, <<"input">> \o InputExt(filename, <<"input">>, <<".", "mp4">>)>>
    ELSE <<tmpdir, <<"audio">> \o InputExt(filename, <<"audio">>, <<".", "wav">>)>>

audio_path == <<tmpdir, <<"audio", ".", "wav">>>>

\* with open(input_path, "wb") as f: f.write(file_bytes)
WriteInput ==
    /\ pc = "write"
    /\ \/ /\ files' = files \cup {input_path}
          /\ pc' = IF isVideo THEN "ffmpeg" ELSE "whisper"
          /\ UNCHANGED <<tmpdir, dirs, raised, reply>>
       \/ TranscriptionFailed("write", "OSError")
    /\ UNCHANGED <<upload, isVideo, dirsCreated, tools, genCalls, response, results>>

\* subprocess.run without check=True: the exit status is ignored
FfmpegFailedUnchecked ==
    /\ raised' = "ffmpeg"
    /\ pc' = "whisper"
    /\ UNCHANGED <<tmpdir, dirs, files, reply>>

\* subprocess.run(cmd, check=True) on a non-zero exit: CalledProcessError
FfmpegFailed == TranscriptionFailed("ffmpeg", "CalledProcessError")

\* extract_audio_with_ffmpeg(input_path, audio_path)
RunFfmpeg ==
    /\ pc = "ffmpeg"
    /\ ffmpegCalls' = ffmpegCalls + 1
    /\ \/ /\ files' = files \cup {audio_path}
          /\ pc' = "whisper"
          /\ UNCHANGED <<tmpdir, dirs, raised, reply>>
       \/ FfmpegFailed
    /\ UNCHANGED <<upload, isVideo, dirsCreated, whisperCalls, genCalls, response, results>>

\* result = whisper_model.transcribe(path); return result.get("text", "").strip()
RunWhisper ==
    /\ pc = "whisper"
    /\ whisperCalls' = whisperCalls + 1
    /\ \/ /\ (IF isVideo THEN audio_path ELSE input_path) \in files
          /\ \E text \in WhisperTexts : transcript_text' = Strip(text)
          /\ dirs' = DirsOnExit(TRUE)
          /\ files' = FilesOnExit(TRUE)
          /\ tmpdir' = 0
          /\ pc' = "main"
          /\ UNCHANGED <<raised, reply>>
       \/ /\ TranscriptionFailed("whisper", "RuntimeError")
          /\ UNCHANGED transcript_text
    /\ UNCHANGED <<upload, isVideo, dirsCreated, ffmpegCalls, genCalls,
                   response, summary, focused_summary, extracted, structured, diarized>>

\* ------------------------------------------------- summaries and insights
\* the handler answering with the results gathered before the exception
ProcessingFailedPartial(step, cause) ==
    /\ raised' = step
    /\ status' = 500
    /\ body' = [error |-> <<"Processing failed: ", cause>>,
                summary |-> summary, transcript |-> transcript_text]
    /\ pc' = "done"

\* an exception inside the try block of the summaries reaches its handler
ProcessingFailed(step, cause) ==
    /\ raised' = step
    /\ status' = 500
    /\ body' = ErrorBody("Processing failed: ", cause)
    /\ pc' = "done"

Called(op) == genCalls' = [genCalls EXCEPT ![op] = @ + 1]

\* summary = summarize_main(transcript_text, language)
SummarizeMain ==
    /\ pc = "main"
    /\ Called("main")
    /\ \/ /\ \E r \in Responses(PlainTexts) :
                /\ response' = r
                /\ summary' = extract_text(r)
          /\ pc' = "focus"
          /\ UNCHANGED <<raised, reply>>
       \/ /\ ProcessingFailed("main", "APIError")
          /\ UNCHANGED <<response, summary>>
    /\ UNCHANGED <<upload, disk, tools, transcript_text, focused_summary, extracted, structured, diarized>>

\* the test on focus_prompt without strip()
HasFocusNoStrip(fp) == fp # <<>>

\* if focus_prompt.strip():
HasFocus(fp) == Strip(fp) # <<>>

\* focused_summary = "" when focus_prompt.strip() is empty
SkipFocused ==
    /\ pc = "focus"
    /\ ~HasFocus(focus_prompt)
    /\ focused_summary' = <<>>
    /\ pc' = "insights"
    /\ UNCHANGED <<upload, disk, tools, genCalls, raised, response, transcript_text,
                   summary, extracted, structured, diarized, reply>>

\* focused_summary = summarize_focused(transcript_text, focus_prompt.strip()),
\* the generative API answering with a response of R or raising
FocusedStep(R) ==
    /\ pc = "focus"
    /\ HasFocus(focus_prompt)
    /\ Called("focused")
    /\ \/ /\ \E r \in R :
                /\ response' = r
                /\ focused_summary' = summarize_focused(r)
          /\ pc' = "insights"
          /\ UNCHANGED <<raised, reply>>
       \/ /\ ProcessingFailed("focused", "APIError")
          /\ UNCHANGED <<response, focused_summary>>
    /\ UNCHANGED <<upload, disk, tools, transcript_text, summary, extracted, structured, diarized>>

SummarizeFocused == FocusedStep(Responses(TextsUpTo(MaxPipeLen)))

\* structured = extract_structured_insights(transcript_text)
ExtractInsights ==
    /\ pc = "insights"
    /\ Called("insights")
    /\ \/ /\ \E r \in Responses(InsightTexts) :
                /\ response' = r
                /\ extracted' = extract_text(r)
                /\ structured' = extract_structured_insights(r)
          /\ pc' = "diarize"
          /\ UNCHANGED <<raised, reply>>
       \/ /\ ProcessingFailed("insights", "APIError")
          /\ UNCHANGED <<response, extracted, structured>>
    /\ UNCHANGED <<upload, disk, tools, transcript_text, summary, focused_summary, diarized>>

\* the dict returned on success; structured is a dict here
ResultBody(d) ==
    [ summary |-> summary,
      focused_summary |-> focused_summary,
      actions |-> DictGet(structured, "\"actions\"", EmptyList),
      decisions |-> DictGet(structured, "\"decisions\"", EmptyList),
      owners |-> DictGet(structured, "\"owners\"", EmptyList),
      risks |-> DictGet(structured, "\"risks\"", EmptyList),
      transcript |-> transcript_text,
      diarized |-> d ]

\* diarized = generate_diarized_transcript(transcript_text), then the return
\* statement: structured.get raises AttributeError unless structured is a dict
Diarize ==
    /\ pc = "diarize"
    /\ Called("diarize")
    /\ \/ \E r \in Responses(PlainTexts) :
             /\ response' = NoResponse
             /\ diarized' = extract_text(r)
             /\ IF structured.kind = "dict"
                THEN /\ status' = 200
                     /\ body' = ResultBody(extract_text(r))
                     /\ pc' = "done"
                     /\ UNCHANGED raised
                ELSE ProcessingFailed("get", "AttributeError")
       \/ /\ ProcessingFailed("diarize", "APIError")
          /\ UNCHANGED <<response, diarized>>
    /\ UNCHANGED <<upload, disk, tools, transcript_text, summary, focused_summary, extracted, structured>>

Next ==
    \/ Receive
    \/ ReadUpload
    \/ EnterTmpDir
    \/ WriteInput
    \/ RunFfmpeg
    \/ RunWhisper
    \/ SummarizeMain
    \/ SkipFocused
    \/ SummarizeFocused
    \/ ExtractInsights
    \/ Diarize

Spec == Init /\ [][Next]_vars

\* ---------------------------------------------- the transcription stage alone
\* the handler up to the return of transcribe_with_whisper_local, for every
\* declared file name and content type
ReceiveUpload == ReceiveFrom(Filenames, ContentTypes, {<<>>})

NextTranscribe ==
    \/ ReceiveUpload
    \/ ReadUpload
    \/ EnterTmpDir
    \/ WriteInput
    \/ RunFfmpeg
    \/ RunWhisper

SpecTranscribe == Init /\ [][NextTranscribe]_vars

\* ------------------------------------------------- summarize_focused alone
\* a request about to call summarize_focused: an audio upload with the focus
\* prompt " a\n" whose transcription and main summary have succeeded
InitFocus ==
    /\ pc = "focus"
    /\ filename = Some(<<"a", ".", "wav">>)
    /\ content_type = None
    /\ focus_prompt = <<SP, "a", NL>>
    /\ isVideo = FALSE
    /\ tmpdir = 0
    /\ dirs = {}
    /\ files = {}
    /\ dirsCreated = 1
    /\ ffmpegCalls = 0
    /\ whisperCalls = 1
    /\ genCalls = [NoCalls EXCEPT !["main"] = 1]
    /\ raised = "none"
    /\ response = Response("value", <<"a">>, FALSE, <<>>)
    /\ transcript_text = <<"a">>
    /\ summary = <<"a">>
    /\ focused_summary = <<>>
    /\ extracted = <<>>
    /\ structured = NoValue
    /\ diarized = <<>>
    /\ status = 0
    /\ body = NoBody

\* the focused-summary call answered with any text of at most MaxLen characters
SummarizeFocusedAny == FocusedStep(Responses(TextsUpTo(MaxLen)))

NextFocus == SummarizeFocusedAny

SpecFocus == InitFocus /\ [][NextFocus]_vars

\* InitFocus is a state of the whole endpoint: TLC finds this violated under Spec
InitFocusUnreached == ~InitFocus

\* ====================================================================
\* Properties
\* ====================================================================
ResultFields ==
    {"summary", "focused_summary", "actions", "decisions", "owners", "risks",
     "transcript", "diarized"}
InsightFields == {"actions", "decisions", "owners", "risks"}
GenSteps == {"main", "focused", "insights", "diarize"}
TmpDirSteps == {"write", "ffmpeg", "whisper"}

\* every character of t is white space (t is empty once trimmed)
AllSpace(t) == \A i \in 1..Len(t) : IsSpace(t[i])

\* C1: when one of the four generate_content operations raises, the response
\* is 500, its body is exactly {"error": "Processing failed: <cause>"} and it
\* holds none of the result fields, whatever the earlier operations returned.
C1_ProcessingFailureHidesResults ==
    raised \in GenSteps =>
        /\ status = 500
        /\ DOMAIN body = {"error"}
        /\ DOMAIN body \cap ResultFields = {}
        /\ body.error[1] = "Processing failed: "

\* C1 witness: diarization raises after the main summary, the focused summary
\* and the structured insights have succeeded.
C1_Witness ==
    /\ raised = "diarize"
    /\ status = 500
    /\ summary = <<"a">>
    /\ focused_summary # <<>>
    /\ structured.kind = "dict"

\* C2 as stated: with a focus_prompt that is empty once trimmed the focused
\* call never occurs and a 200 response carries focused_summary = ""; with any
\* other focus_prompt the call has occurred exactly once when the request
\* ends (read here of the requests that reach the summaries at all).
C2_FocusedCallExactlyOnce ==
    /\ AllSpace(focus_prompt) =>
          /\ genCalls["focused"] = 0
          /\ status = 200 => body.focused_summary = <<>>
    /\ (~AllSpace(focus_prompt) /\ pc = "done" /\ genCalls["main"] = 1) =>
          genCalls["focused"] = 1

\* the main-summary call of this request has returned
PastMainSummary ==
    \/ pc \in {"insights", "diarize"}
    \/ pc = "done" /\ (status = 200 \/ raised \in {"focused", "insights", "diarize", "get"})

\* C2 amended: with a focus_prompt that is empty once trimmed the focused
\* call never occurs and a 200 response carries focused_summary = ""; with any
\* other focus_prompt the call occurs exactly once in a request whose
\* main-summary call returned (so in every request answered 200) and not at
\* all in a request that failed before.
C2_FocusedCallOncePastMain ==
    /\ AllSpace(focus_prompt) =>
          /\ genCalls["focused"] = 0
          /\ status = 200 => body.focused_summary = <<>>
    /\ ~AllSpace(focus_prompt) =>
          genCalls["focused"] = (IF PastMainSummary THEN 1 ELSE 0)

\* C2 witness: a 200 response to a request whose focus_prompt is non-empty
\* once trimmed, after one focused call.
C2_Witness ==
    /\ status = 200
    /\ focus_prompt = <<SP, "a", NL>>
    /\ genCalls["focused"] = 1
    /\ body.focused_summary # <<>>

\* C3 as stated: every 200 response carries actions, decisions, owners and
\* risks, each an array, and handling the structured-insights text never makes
\* the request fail.
C3_InsightFieldsAlwaysArrays ==
    /\ status = 200 =>
          /\ InsightFields \subseteq DOMAIN body
          /\ body.actions.kind = "list"
          /\ body.decisions.kind = "list"
          /\ body.owners.kind = "list"
          /\ body.risks.kind = "list"
    /\ raised # "get"

\* the lines of a focused summary
SummaryLines == SplitLines(focused_summary)

\* C4 as stated: whatever text the API returns, the result of
\* summarize_focused is non-empty and every line of it starts with the bullet.
C4_FocusedSummaryBulletOnly ==
    (pc = "insights" /\ genCalls["focused"] = 1) =>
        /\ focused_summary # <<>>
        /\ \A i \in 1..Len(SummaryLines) : StartsWithBullet(SummaryLines[i])

\* the focused call yields empty text: the text accessor gives white space
\* only, or it gives nothing (absent, raising or empty) and the candidate
\* path fails or gives white space only
EmptyYield(r) ==
    \/ r.acc = "value" /\ r.text # <<>> /\ AllSpace(r.text)
    \/ /\ r.acc # "value" \/ r.text = <<>>
       /\ ~r.candOk \/ AllSpace(r.cand)

\* C5: when the focused call yields empty text, summarize_focused returns
\* exactly the fallback bullet and the request goes on without an exception.
C5_EmptyTextGivesFallback ==
    (genCalls["focused"] = 1 /\ raised = "none" /\ EmptyYield(response)) =>
        /\ focused_summary = FallbackBullet
        /\ pc = "insights"

\* C5 witness: both extraction paths fail and the fallback bullet is returned.
C5_Witness ==
    /\ pc = "insights"
    /\ genCalls["focused"] = 1
    /\ response.acc = "raises"
    /\ ~response.candOk
    /\ focused_summary = FallbackBullet

\* the text the generative API returned in response r
ReturnedText(r) ==
    IF r.acc = "value" /\ r.text # <<>> THEN r.text
    ELSE IF r.candOk THEN r.cand ELSE <<>>

\* no line of t starts with the bullet, leading white space aside: every
\* bullet of t comes after another visible character of its line
NoBulletLine(t) ==
    \A i \in 1..Len(t) :
        t[i] = BULLET =>
            \E j \in 1..(i - 1) :
                /\ ~IsSpace(t[j])
                /\ \A k \in j..i : t[k] # NL

\* the non-blank lines of t, each trimmed and prefixed with the bullet and a
\* space, joined by newlines
Bulleted(t) ==
    LET ls == StripNonBlank(SplitLines(t)) IN
    JoinLines([i \in 1..Len(ls) |-> <<BULLET, SP>> \o ls[i]])

VideoNamed ==
    { Some(<<"a", ".", "mp4">>), Some(<<"a", ".", "MP4">>), Some(<<"a", ".", "Mkv">>),
      Some(<<"a", ".", "avi">>), Some(<<"a", ".", "mov">>), Some(<<"a", ".", "webm">>) }

\* the upload is a video in the words of the claim
ClaimedVideo ==
    \/ filename \in VideoNamed
    \/ content_type.some /\ content_type.v # <<>> /\ content_type.v[1] = "video/"

\* C7 as stated: the upload is classified as video exactly when its extension
\* or its content type says so; a video upload has had ffmpeg run exactly once
\* when whisper is called and when the stage is left; any other upload never.
C7_VideoExtractedExactlyOnce ==
    dirsCreated = 1 =>
        /\ isVideo = ClaimedVideo
        /\ ~isVideo => ffmpegCalls = 0
        /\ (isVideo /\ whisperCalls > 0) => ffmpegCalls = 1
        /\ (isVideo /\ pc \in {"main", "done"}) => ffmpegCalls = 1

\* C7 amended: the same classification; for a video upload whose input file
\* was written ffmpeg runs exactly once, before whisper is called; when
\* writing the input file fails neither ffmpeg nor whisper runs; for any other
\* upload ffmpeg never runs.
C7_VideoExtractedOnceIfWritten ==
    dirsCreated = 1 =>
        /\ isVideo = ClaimedVideo
        /\ ~isVideo => ffmpegCalls = 0
        /\ ffmpegCalls <= 1
        /\ (isVideo /\ whisperCalls > 0) => ffmpegCalls = 1
        /\ (isVideo /\ pc \in {"whisper", "main", "done"} /\ raised # "write") => ffmpegCalls = 1
        /\ raised = "write" => (ffmpegCalls = 0 /\ whisperCalls = 0)

\* C7 witness: an upload named a.MP4 has been transcribed after one ffmpeg run.
C7_Witness ==
    /\ filename = Some(<<"a", ".", "MP4">>)
    /\ content_type = None
    /\ isVideo
    /\ pc = "main"
    /\ ffmpegCalls = 1
    /\ whisperCalls = 1

\* C8: when writing the input, ffmpeg or whisper fails, the response is 500
\* with body {"error": "Transcription failed: <cause>"}, whisper is not called
\* after a failed ffmpeg run, and no generate_content call is made.
C8_TranscriptionFailureStopsRequest ==
    raised \in TmpDirSteps =>
        /\ status = 500
        /\ DOMAIN body = {"error"}
        /\ body.error[1] = "Transcription failed: "
        /\ \A op \in Ops : genCalls[op] = 0
        /\ raised = "ffmpeg" => whisperCalls = 0
        /\ pc = "done"

\* C8 witness: ffmpeg exits non-zero on a video upload.
C8_Witness ==
    /\ raised = "ffmpeg"
    /\ isVideo
    /\ ffmpegCalls = 1
    /\ status = 500

\* texts handed to json.loads that are no JSON document
BadJsonTexts ==
    { <<>>,
      <<"Sure">>,
      <<"{", "\"actions\"", ":", "[", "]", ",">>,
      <<"{", "\"actions\"", ":", "[", "]", "}", "Sure">> }

\* C9: when the text of the structured-insights call is no JSON document,
\* extract_structured_insights returns the four empty lists without raising,
\* and the request is answered 200 with four empty arrays when nothing else
\* fails.
C9_BadJsonGivesEmptyInsights ==
    (genCalls["insights"] = 1 /\ raised # "insights" /\ extracted \in BadJsonTexts) =>
        /\ structured = EmptyInsights
        /\ raised # "get"
        /\ (pc = "done" /\ raised = "none") =>
              /\ status = 200
              /\ body.actions = EmptyList
              /\ body.decisions = EmptyList
              /\ body.owners = EmptyList
              /\ body.risks = EmptyList

\* C9 witness: the model answers "Sure" and the request ends with 200.
C9_Witness ==
    /\ status = 200
    /\ extracted = <<"Sure">>
    /\ structured = EmptyInsights

\* C10: a request creates one temporary directory, not in use before; while
\* transcribe_with_whisper_local runs, the files on disk are all in it; once
\* the function is left, by return or by exception, the directory and its
\* files are gone, so before any generate_content call.
C10_TmpDirScoped ==
    /\ dirsCreated <= 1
    /\ pc \in TmpDirSteps =>
          /\ dirsCreated = 1
          /\ dirs = {tmpdir}
          /\ \A f \in files : f[1] = tmpdir
          /\ pc # "write" => files # {}
          /\ (pc = "whisper" /\ isVideo) => audio_path \in files
    /\ pc \notin TmpDirSteps => (dirs = {} /\ files = {})
    /\ (pc \in {"main", "focus", "insights", "diarize"} \/ raised \in TmpDirSteps) =>
          dirsCreated = 1
    /\ (\E op \in Ops : genCalls[op] > 0) => dirs = {}

\* C10 witness: ffmpeg has failed and the directory of the request is gone.
C10_Witness ==
    /\ raised = "ffmpeg"
    /\ pc = "done"
    /\ dirsCreated = 1
    /\ dirs = {}
    /\ files = {}

====
